---------------------------- MODULE Spec2Model ----------------------------
(*************************************************************************)
(* Stack decoder with a single-gap reordering mechanism (part2.py).      *)
(*                                                                       *)
(* One behaviour is the decoding of one source sentence f: the phrase    *)
(* table is loaded and pruned to opts_k candidates per span, unknown     *)
(* tokens get the copy entry, the stacks are created, each stack but the *)
(* last is pruned to opts_s hypotheses and expanded, and the winner is   *)
(* read off the last stack.                                              *)
(*                                                                       *)
(* Conventions.  Python's None is the empty tuple <<>>; an optional      *)
(* value that is present is the one-element tuple <<v>> (predecessor,    *)
(* phrase) or the pair itself (gap).  Log-probabilities are integers.    *)
(* A string is a sequence of atoms, the atom " " being white space and   *)
(* every other atom a whole word.  Source positions are 0-based as in    *)
(* the code; f[a:b] is Slice(f, a, b).                                   *)
(*************************************************************************)
EXTENDS Integers, Sequences, FiniteSets, TLC

VARIABLES
    f,          \* the source sentence, a tuple of tokens
    opts_k,     \* -k: translations kept per phrase
    opts_s,     \* -s: stack (beam) size
    tm,         \* phrase table: span -> list of phrases
    lm,         \* language model
    stacks,     \* stacks[n+1] is the dict of stack n: state -> hypothesis
    si,         \* index of the stack the outer loop is at, 0..Len(f)
    beam,       \* the pruned, sorted list of hypotheses of stack si, empty
                \* outside the loop over it
    bi,         \* position in beam of the hypothesis being expanded
    exts,       \* the extensions extend_state yields for beam[bi], empty
                \* outside the loop over them
    ei,         \* position in exts of the next extension to insert
    generated,  \* the <<stack, state, logprob>> of every hypothesis built at
                \* line 111
    winner,     \* None or <<h>>
    output,     \* what has been printed: <<>> or <<text>>
    pc          \* position of the script

vars == <<f, opts_k, opts_s, tm, lm, stacks, si, beam, bi, exts, ei,
          generated, winner, output, pc>>

-----------------------------------------------------------------------------
(* Bounds of the model *)

MaxLen == 3

MaxBeam == 4

MaxK == 2

-----------------------------------------------------------------------------
(* Generic helpers *)

None == <<>>

Range(fn) == {fn[x] : x \in DOMAIN fn}

Slice(seq, a, b) == SubSeq(seq, a + 1, b)

Take(seq, n) == SubSeq(seq, 1, IF n < Len(seq) THEN n ELSE Len(seq))

MaxOf(S) == CHOOSE m \in S : \A x \in S : x <= m

RECURSIVE SeqsUpTo(_, _)
SeqsUpTo(S, n) ==
    IF n = 0 THEN {<<>>}
    ELSE LET shorter == SeqsUpTo(S, n - 1)
         IN  shorter \cup {Append(q, x) : q \in {r \in shorter : Len(r) = n - 1}, x \in S}

RECURSIVE Flatten(_)
Flatten(ss) == IF ss = <<>> THEN <<>> ELSE Head(ss) \o Flatten(Tail(ss))

-----------------------------------------------------------------------------
(* The collaborators of module models: phrases, the phrase table loader  *)
(* and the language model.                                               *)

Tokens == {"x", "y"}

Sentences == SeqsUpTo(Tokens, MaxLen)

Phrase(english, logprob) == [english |-> english, logprob |-> logprob]

\* str.split(): the words of a string, white space dropped
Split(english) == SelectSeq(english, LAMBDA c : c # " ")

\* list.sort(key=lambda x: -x.logprob): stable, best first
RECURSIVE SortPhrases(_)
SortPhrases(ps) ==
    IF ps = <<>> THEN <<>>
    ELSE LET rest == SortPhrases(Tail(ps))
             p    == Head(ps)
             n    == Cardinality({m \in 1..Len(rest) : rest[m].logprob > p.logprob})
         IN  SubSeq(rest, 1, n) \o <<p>> \o SubSeq(rest, n + 1, Len(rest))

\* models.TM(filename, k): every span keeps its k best phrases; the table
\* contains a span exactly if it has a candidate for it, so a span whose
\* list the limit k empties (k = 0) is not a key of the table
TM(raw, k) ==
    [sp \in {x \in DOMAIN raw : Take(SortPhrases(raw[x]), k) # <<>>} |->
        Take(SortPhrases(raw[sp]), k)]

\* The phrase-table files decoded against, each in file order
RawTables ==
    { <<>>,
      (<<"x">> :> <<Phrase(<<"B">>, -2), Phrase(<<"A">>, -1)>>)
        @@ (<<"y">> :> <<Phrase(<<"B">>, -1)>>)
        @@ (<<"x", "y">> :> <<Phrase(<<"A", " ", "B">>, -1)>>),
      (<<"x", "x">> :> <<Phrase(<<"A">>, 0)>>)
        @@ (<<"x", "y">> :> <<Phrase(<<"B">>, -1), Phrase(<<"y", " ", "x">>, -1)>>),
      (<<"y">> :> <<Phrase(<<"A">>, 0)>>)
        @@ (<<"y", "x">> :> <<Phrase(<<"A">>, 0)>>)
        @@ (<<"x", "y", "x">> :> <<Phrase(<<"B">>, -3)>>) }

\* A language model: a table of bigram scores and the score of any other bigram
LanguageModels ==
    { [bigram |-> (<<"<s>", "y">> :> 0) @@ (<<"y", "x">> :> 0) @@ (<<"x", "</s>">> :> 0)
                    @@ (<<"<s>", "B">> :> 0) @@ (<<"B", "A">> :> 0) @@ (<<"A", "</s>">> :> 0),
       unk |-> -2],
      [bigram |-> (<<"<s>", "x">> :> 0) @@ (<<"x", "y">> :> -1) @@ (<<"y", "</s>">> :> 0)
                    @@ (<<"<s>", "A">> :> -1) @@ (<<"A", "B">> :> 0) @@ (<<"B", "</s>">> :> -1),
       unk |-> -3] }

\* lm.begin()
lm_begin == <<"<s>">>

\* lm.score(lm_state, word) = (new lm_state, logprob of word)
lm_score(lm_state, word) ==
    LET ngram == lm_state \o <<word>>
    IN  <<<<word>>, IF ngram \in DOMAIN lm.bigram THEN lm.bigram[ngram] ELSE lm.unk>>

\* lm.end(lm_state)
lm_end(lm_state) == lm_score(lm_state, "</s>")[2]

-----------------------------------------------------------------------------
(* part2.py, lines 21-26: unknown tokens are copied to the output *)

french == <<f>>

\* mutant: the test of line 25 is missing, every token of the input gets
\* the copy entry
oov_fallback_overwrites(table, sentences) ==
    LET words == UNION {Range(sent) : sent \in Range(sentences)}
    IN  [sp \in DOMAIN table \cup {<<w>> : w \in words} |->
            IF Len(sp) = 1 /\ sp[1] \in words THEN <<Phrase(<<sp[1]>>, 0)>> ELSE table[sp]]

\* mutant: the copy entry of an unknown token carries a penalty
oov_fallback_penalised(table, sentences) ==
    LET words == UNION {Range(sent) : sent \in Range(sentences)}
    IN  [sp \in DOMAIN table \cup {<<w>> : w \in words} |->
            IF sp \in DOMAIN table THEN table[sp] ELSE <<Phrase(<<sp[1]>>, -1)>>]

oov_fallback(table, sentences) ==
    LET words == UNION {Range(sent) : sent \in Range(sentences)}
    IN  [sp \in DOMAIN table \cup {<<w>> : w \in words} |->
            IF sp \in DOMAIN table THEN table[sp] ELSE <<Phrase(<<sp[1]>>, 0)>>]

-----------------------------------------------------------------------------
(* part2.py, lines 36-85: the dynamic program *)

state(i, gap, lm_state) == [i |-> i, gap |-> gap, lm_state |-> lm_state]

initial_state == state(0, None, lm_begin)

\* mutant: the end of the gap is subtracted, not its length
assign_stack_minus_gap_end(s) == s.i - (IF s.gap = None THEN 0 ELSE s.gap[2])

\* mutant: the stack is picked by covered_upto alone
assign_stack_ignores_gap(s) == s.i

assign_stack(s) == s.i - (IF s.gap = None THEN 0 ELSE s.gap[2] - s.gap[1])

\* mutant: line 59 scores every word after the begin-of-sentence context
RECURSIVE score_words_from_begin(_, _, _)
score_words_from_begin(lm_state, words, logprob) ==
    IF words = <<>> THEN <<lm_state, logprob>>
    ELSE LET r == lm_score(lm_begin, Head(words))
         IN  score_words_from_begin(r[1], Tail(words), logprob + r[2])

RECURSIVE score_words(_, _, _)
score_words(lm_state, words, logprob) ==
    IF words = <<>> THEN <<lm_state, logprob>>
    ELSE LET r == lm_score(lm_state, Head(words))
         IN  score_words(r[1], Tail(words), logprob + r[2])

add_log_probs(lm_state, ph, eos) ==
    LET r == score_words(lm_state, Split(ph.english), ph.logprob)
    IN  <<r[1], r[2] + (IF eos THEN lm_end(r[1]) ELSE 0)>>

\* mutant: translating the next phrase leaves covered_upto where it was
translate_next_stays(s, src, j) ==
    LET phrases == tm[Slice(src, s.i, j)]
    IN  [n \in 1..Len(phrases) |->
            LET r == add_log_probs(s.lm_state, phrases[n], j = Len(src))
            IN  <<state(s.i, None, r[1]), r[2], phrases[n]>>]

\* case 1: translate next phrase, the span [s.i, j)
translate_next(s, src, j) ==
    LET phrases == tm[Slice(src, s.i, j)]
    IN  [n \in 1..Len(phrases) |->
            LET r == add_log_probs(s.lm_state, phrases[n], j = Len(src))
            IN  <<state(j, None, r[1]), r[2], phrases[n]>>]

\* mutant: the gap recorded is the span translated, not the span skipped
skip_phrase_wrong_gap(s, src, j, k) ==
    IF Slice(src, j, k) \in DOMAIN tm
    THEN LET phrases == tm[Slice(src, j, k)]
         IN  [n \in 1..Len(phrases) |->
                 LET r == add_log_probs(s.lm_state, phrases[n], FALSE)
                 IN  <<state(k, <<j, k>>, r[1]), r[2], phrases[n]>>]
    ELSE <<>>

\* mutant: case 2 scores the end of the sentence when it reaches the last
\* token
skip_phrase_scores_eos(s, src, j, k) ==
    IF Slice(src, j, k) \in DOMAIN tm
    THEN LET phrases == tm[Slice(src, j, k)]
         IN  [n \in 1..Len(phrases) |->
                 LET r == add_log_probs(s.lm_state, phrases[n], k = Len(src))
                 IN  <<state(k, <<s.i, j>>, r[1]), r[2], phrases[n]>>]
    ELSE <<>>

\* mutant: covered_upto of the state with the gap is the end of the gap
skip_phrase_stops_at_gap(s, src, j, k) ==
    IF Slice(src, j, k) \in DOMAIN tm
    THEN LET phrases == tm[Slice(src, j, k)]
         IN  [n \in 1..Len(phrases) |->
                 LET r == add_log_probs(s.lm_state, phrases[n], FALSE)
                 IN  <<state(j, <<s.i, j>>, r[1]), r[2], phrases[n]>>]
    ELSE <<>>

\* case 2: skip the span [s.i, j) and translate [j, k)
skip_phrase(s, src, j, k) ==
    IF Slice(src, j, k) \in DOMAIN tm
    THEN LET phrases == tm[Slice(src, j, k)]
         IN  [n \in 1..Len(phrases) |->
                 LET r == add_log_probs(s.lm_state, phrases[n], FALSE)
                 IN  <<state(k, <<s.i, j>>, r[1]), r[2], phrases[n]>>]
    ELSE <<>>

\* mutant: filling the gap leaves it open
fill_gap_keeps_gap(s, src) ==
    LET phrases == tm[Slice(src, s.gap[1], s.gap[2])]
    IN  [n \in 1..Len(phrases) |->
            LET r == add_log_probs(s.lm_state, phrases[n], s.i = Len(src))
            IN  <<state(s.i, s.gap, r[1]), r[2], phrases[n]>>]

\* mutant: filling the gap moves covered_upto back to the end of the gap
fill_gap_rewinds(s, src) ==
    LET phrases == tm[Slice(src, s.gap[1], s.gap[2])]
    IN  [n \in 1..Len(phrases) |->
            LET r == add_log_probs(s.lm_state, phrases[n], s.i = Len(src))
            IN  <<state(s.gap[2], None, r[1]), r[2], phrases[n]>>]

\* mutant: a gap is filled only once the last token is covered
fill_gap_at_end_only(s, src) ==
    IF s.i = Len(src)
    THEN LET phrases == tm[Slice(src, s.gap[1], s.gap[2])]
         IN  [n \in 1..Len(phrases) |->
                 LET r == add_log_probs(s.lm_state, phrases[n], TRUE)
                 IN  <<state(s.i, None, r[1]), r[2], phrases[n]>>]
    ELSE <<>>

\* case 3: fill in gap
fill_gap(s, src) ==
    LET phrases == tm[Slice(src, s.gap[1], s.gap[2])]
    IN  [n \in 1..Len(phrases) |->
            LET r == add_log_probs(s.lm_state, phrases[n], s.i = Len(src))
            IN  <<state(s.i, None, r[1]), r[2], phrases[n]>>]

\* mutant: case 2 is outside the test of line 73, a span is skipped whether
\* or not the table has an entry for it
extend_state_skips_anything(s, src) ==
    IF s.gap = None
    THEN Flatten([n \in 1..(Len(src) - s.i) |->
             LET j == s.i + n
             IN  (IF Slice(src, s.i, j) \in DOMAIN tm THEN translate_next(s, src, j) ELSE <<>>)
                   \o Flatten([m \in 1..(Len(src) - j) |-> skip_phrase(s, src, j, j + m)])])
    ELSE fill_gap(s, src)

\* The extensions of s in the order the generator yields them
extend_state(s, src) ==
    IF s.gap = None
    THEN Flatten([n \in 1..(Len(src) - s.i) |->
             LET j == s.i + n
             IN  IF Slice(src, s.i, j) \in DOMAIN tm
                 THEN translate_next(s, src, j)
                        \o Flatten([m \in 1..(Len(src) - j) |-> skip_phrase(s, src, j, j + m)])
                 ELSE <<>>])
    ELSE fill_gap(s, src)

-----------------------------------------------------------------------------
(* part2.py, lines 100-121: the stack decoder *)

hypothesis(logprob, predecessor, ph, st) ==
    [logprob |-> logprob, predecessor |-> predecessor, phrase |-> ph, state |-> st]

\* mutant: the initial hypothesis is charged the end-of-sentence score
root_with_eos == hypothesis(lm_end(lm_begin), None, None, initial_state)

\* line 107: the initial hypothesis
root == hypothesis(0, None, None, initial_state)

\* mutant: the sort key is +logprob, the worst hypotheses come first
RECURSIVE prune_worst_first(_, _)
prune_worst_first(H, n) ==
    IF n <= 0 \/ H = {} THEN {<<>>}
    ELSE LET bottom == CHOOSE m \in {h.logprob : h \in H} : \A h \in H : m <= h.logprob
         IN  UNION {{<<h>> \o rest : rest \in prune_worst_first(H \ {h}, n - 1)} :
                        h \in {g \in H : g.logprob = bottom}}

\* sorted(stack.itervalues(), key=lambda h: -h.logprob)[:n]: every list the
\* stable sort can return, hypotheses of equal logprob being in the order
\* the dict iterates them, which the code does not fix
RECURSIVE prune(_, _)
prune(H, n) ==
    IF n <= 0 \/ H = {} THEN {<<>>}
    ELSE LET top == MaxOf({h.logprob : h \in H})
         IN  UNION {{<<h>> \o rest : rest \in prune(H \ {h}, n - 1)} :
                        h \in {g \in H : g.logprob = top}}

\* mutant: line 116 compares with <=, a tying arrival replaces the entry
recombine_replace_on_tie(stack, new_state, new_h) ==
    IF new_state \notin DOMAIN stack \/ stack[new_state].logprob <= new_h.logprob
    THEN (new_state :> new_h) @@ stack
    ELSE stack

\* mutant: the test of line 116 is missing, the last arrival stays
recombine_keep_last(stack, new_state, new_h) == (new_state :> new_h) @@ stack

\* lines 116-117: the stack after new_h is offered for new_state
recombine(stack, new_state, new_h) ==
    IF new_state \notin DOMAIN stack \/ stack[new_state].logprob < new_h.logprob
    THEN (new_state :> new_h) @@ stack
    ELSE stack

\* max(stack.itervalues(), key=lambda h: h.logprob): the hypotheses it can return
best_of(H) == {h \in H : \A g \in H : g.logprob <= h.logprob}

\* mutant: the text is assembled from the winner back to the root
RECURSIVE extract_english_winner_first(_)
extract_english_winner_first(h) ==
    IF h.predecessor = None THEN <<>>
    ELSE h.phrase[1].english \o <<" ">> \o extract_english_winner_first(h.predecessor[1])

RECURSIVE extract_english(_)
extract_english(h) ==
    IF h.predecessor = None THEN <<>>
    ELSE extract_english(h.predecessor[1]) \o h.phrase[1].english \o <<" ">>

\* lines 125-126: the translation-model share of h's logprob
RECURSIVE extract_tm_logprob(_)
extract_tm_logprob(h) ==
    IF h.predecessor = None THEN 0
    ELSE h.phrase[1].logprob + extract_tm_logprob(h.predecessor[1])

\* lines 128-129: the LM, TM and Total figures reported for h
report(h) ==
    LET tm_logprob == extract_tm_logprob(h)
    IN  [LM |-> h.logprob - tm_logprob, TM |-> tm_logprob, Total |-> h.logprob]


-----------------------------------------------------------------------------
(* The script as a state machine *)

L == Len(f)

Init ==
    /\ f \in Sentences
    /\ opts_k \in 0..MaxK
    /\ opts_s \in 0..MaxBeam
    /\ \E raw \in RawTables : tm = TM(raw, opts_k)
    /\ lm \in LanguageModels
    /\ stacks = <<>>
    /\ si = 0
    /\ beam = <<>>
    /\ bi = 0
    /\ exts = <<>>
    /\ ei = 0
    /\ generated = {}
    /\ winner = None
    /\ output = None
    /\ pc = "oov"

\* lines 24-26
OOVFallback ==
    /\ pc = "oov"
    /\ tm' = oov_fallback(tm, french)
    /\ pc' = "create"
    /\ UNCHANGED <<f, opts_k, opts_s, lm, stacks, si, beam, bi, exts, ei,
                   generated, winner, output>>

\* lines 106-107
CreateStacks ==
    /\ pc = "create"
    /\ stacks' = [n \in 1..(L + 1) |->
                     IF n = 1
                     THEN initial_state :> root
                     ELSE <<>>]
    /\ si' = 0
    /\ pc' = "loop"
    /\ UNCHANGED <<f, opts_k, opts_s, tm, lm, beam, bi, exts, ei,
                   generated, winner, output>>

\* lines 108-109: the next stack of stacks[:-1] is sorted and pruned
PruneStack ==
    /\ pc = "loop"
    /\ si < L
    /\ beam' \in prune(Range(stacks[si + 1]), opts_s)
    /\ bi' = 1
    /\ pc' = "expand"
    /\ UNCHANGED <<f, opts_k, opts_s, tm, lm, stacks, si, exts, ei,
                   generated, winner, output>>

\* line 110: the next hypothesis h of the pruned list is extended
ExpandHypothesis ==
    /\ pc = "expand"
    /\ bi <= Len(beam)
    /\ exts' = extend_state(beam[bi].state, f)
    /\ ei' = 1
    /\ pc' = "insert"
    /\ UNCHANGED <<f, opts_k, opts_s, tm, lm, stacks, si, beam, bi,
                   generated, winner, output>>

\* lines 111-117: one extension becomes a hypothesis and is recombined
Insert ==
    /\ pc = "insert"
    /\ ei <= Len(exts)
    /\ LET h         == beam[bi]
           new_state == exts[ei][1]
           new_h     == hypothesis(h.logprob + exts[ei][2], <<h>>, <<exts[ei][3]>>, new_state)
           j         == assign_stack(new_state)
       IN  /\ stacks' = [stacks EXCEPT ![j + 1] = recombine(@, new_state, new_h)]
           /\ generated' = generated \cup {<<j, new_state, new_h.logprob>>}
    /\ ei' = ei + 1
    /\ UNCHANGED <<f, opts_k, opts_s, tm, lm, si, beam, bi, exts, winner, output, pc>>

\* line 110: the generator of h is exhausted
ExtensionsDone ==
    /\ pc = "insert"
    /\ ei > Len(exts)
    /\ bi' = bi + 1
    /\ exts' = <<>>
    /\ ei' = 0
    /\ pc' = "expand"
    /\ UNCHANGED <<f, opts_k, opts_s, tm, lm, stacks, si, beam,
                   generated, winner, output>>

\* line 109: the pruned list is exhausted; line 108 moves to the next stack
NextStack ==
    /\ pc = "expand"
    /\ bi > Len(beam)
    /\ si' = si + 1
    /\ beam' = <<>>
    /\ bi' = 0
    /\ pc' = "loop"
    /\ UNCHANGED <<f, opts_k, opts_s, tm, lm, stacks, exts, ei,
                   generated, winner, output>>

\* lines 118-121: the best hypothesis of the last stack is printed
SelectWinner ==
    /\ pc = "loop"
    /\ si = L
    /\ DOMAIN stacks[L + 1] # {}
    /\ \E h \in best_of(Range(stacks[L + 1])) :
          /\ winner' = <<h>>
          /\ output' = <<extract_english(h)>>
    /\ pc' = "done"
    /\ UNCHANGED <<f, opts_k, opts_s, tm, lm, stacks, si, beam, bi, exts, ei, generated>>

\* mutant: an empty final stack prints an empty translation
EmptyFinalStack_silent ==
    /\ pc = "loop"
    /\ si = L
    /\ DOMAIN stacks[L + 1] = {}
    /\ output' = <<<<>>>>
    /\ pc' = "done"
    /\ UNCHANGED <<f, opts_k, opts_s, tm, lm, stacks, si, beam, bi, exts, ei,
                   generated, winner>>

\* line 118: max() of an empty sequence raises ValueError, which nothing catches
EmptyFinalStack ==
    /\ pc = "loop"
    /\ si = L
    /\ DOMAIN stacks[L + 1] = {}
    /\ pc' = "error"
    /\ UNCHANGED <<f, opts_k, opts_s, tm, lm, stacks, si, beam, bi, exts, ei,
                   generated, winner, output>>

Next ==
    \/ OOVFallback
    \/ CreateStacks
    \/ PruneStack
    \/ ExpandHypothesis
    \/ Insert
    \/ ExtensionsDone
    \/ NextStack
    \/ SelectWinner
    \/ EmptyFinalStack

Spec == Init /\ [][Next]_vars

-----------------------------------------------------------------------------
(* What the claims speak of *)

\* stack n as the driver indexes it, n in 0..L
stack_at(n) == stacks[n + 1]

created == pc \notin {"oov", "create"}

\* the hypotheses the stacks hold
Stored == UNION {Range(stacks[n]) : n \in DOMAIN stacks}

\* the source span [a, b) translated by the phrase on the edge into h: the
\* span extend_state looked up when it yielded h.state from the state of
\* h's predecessor (case 1, case 2, case 3)
span_of(h) ==
    LET p == h.predecessor[1].state
    IN  IF p.gap # None THEN p.gap
        ELSE IF h.state.gap = None THEN <<p.i, h.state.i>>
        ELSE <<h.state.gap[2], h.state.i>>

\* the spans along the predecessor chain of h, root first
RECURSIVE chain_spans(_)
chain_spans(h) ==
    IF h.predecessor = None THEN <<>>
    ELSE Append(chain_spans(h.predecessor[1]), span_of(h))

positions(span) == span[1]..(span[2] - 1)

RECURSIVE total_length(_)
total_length(spans) ==
    IF spans = <<>> THEN 0
    ELSE (Head(spans)[2] - Head(spans)[1]) + total_length(Tail(spans))

covered_by(spans) == UNION {positions(sp) : sp \in Range(spans)}

covered(h) == covered_by(chain_spans(h))

\* the positions state s accounts for: [0, i) minus the open gap
accounted(s) == (0..(s.i - 1)) \ (IF s.gap = None THEN {} ELSE positions(s.gap))

exact_cover(h, n) ==
    LET spans == chain_spans(h)
        cov   == covered_by(spans)
    IN  /\ cov = accounted(h.state)
        /\ Cardinality(cov) = n
        /\ total_length(spans) = n

\* C1: every hypothesis stored in stack n translates n source positions,
\* each once: the spans on its predecessor chain are pairwise disjoint and
\* cover [0, covered_upto) minus the open gap; the winner covers 0..L-1.
C1_ExactCoverage ==
    /\ \A n \in DOMAIN stacks : \A h \in Range(stacks[n]) : exact_cover(h, n - 1)
    /\ winner # None =>
          /\ covered(winner[1]) = 0..(L - 1)
          /\ total_length(chain_spans(winner[1])) = L

\* a winner that filled a gap as its last step, and a stored hypothesis
\* whose gap is still open
C1_Witness ==
    /\ pc = "done"
    /\ L >= 3
    /\ winner[1].predecessor[1].state.gap # None
    /\ \E h \in Stored : h.state.gap # None /\ h.predecessor[1].predecessor # None

\* C2: the final stack only ever holds states with covered_upto = L and no
\* open gap.
C2_FinalStackComplete ==
    created => \A s \in DOMAIN stack_at(L) : s.i = L /\ s.gap = None

\* decoding is over, the final stack holds two states, and a state with an
\* open gap had reached the end of the sentence
C2_Witness ==
    /\ pc = "done"
    /\ Cardinality(DOMAIN stack_at(L)) >= 2
    /\ \E h \in Stored : h.state.gap # None /\ h.state.i = L

\* the logprobs of the hypotheses generated so far for state s of stack n
scores_for(n, s) == {g[3] : g \in {x \in generated : x[1] = n /\ x[2] = s}}

\* every generated hypothesis has an entry, and the entry of a state has
\* the greatest logprob generated for it
holds_maximum ==
    /\ \A g \in generated : g[2] \in DOMAIN stack_at(g[1])
    /\ \A n \in DOMAIN stacks : \A s \in DOMAIN stacks[n] :
          \/ scores_for(n - 1, s) = {} /\ stacks[n][s].predecessor = None
          \/ /\ stacks[n][s].logprob \in scores_for(n - 1, s)
             /\ \A v \in scores_for(n - 1, s) : v <= stacks[n][s].logprob

\* an entry is never removed, and changes only to a strictly greater logprob
replaced_only_by_better ==
    \A n \in DOMAIN stacks : \A s \in DOMAIN stacks[n] :
        /\ s \in DOMAIN stacks'[n]
        /\ stacks'[n][s] # stacks[n][s] => stacks'[n][s].logprob > stacks[n][s].logprob

\* the hypothesis line 111 builds from the extension at hand
candidate == hypothesis(beam[bi].logprob + exts[ei][2], <<beam[bi]>>, <<exts[ei][3]>>, exts[ei][1])

\* offering a candidate no better than the entry of its state changes nothing
worse_or_equal_dropped ==
    (/\ pc = "insert"
     /\ ei' = ei + 1
     /\ candidate.state \in DOMAIN stack_at(assign_stack(candidate.state))
     /\ candidate.logprob <= stack_at(assign_stack(candidate.state))[candidate.state].logprob)
    => stacks' = stacks

\* C3: the entry of a State is the best hypothesis generated for it so far,
\* whatever the order of arrival; a candidate that ties with or scores below
\* the entry leaves the stacks alone, only a strictly better one replaces it.
C3_Recombination ==
    /\ []holds_maximum
    /\ [][replaced_only_by_better /\ worse_or_equal_dropped]_vars

\* the entry the candidate at hand competes with
rival == stack_at(assign_stack(candidate.state))[candidate.state]

\* the candidate at hand is strictly better than the entry of its state
\* and is about to replace it, while another state of that stack holds an
\* entry that beat a worse hypothesis generated for it
C3_Witness ==
    /\ pc = "insert" /\ ei <= Len(exts)
    /\ candidate.state \in DOMAIN stack_at(assign_stack(candidate.state))
    /\ candidate.logprob > rival.logprob
    /\ \E g \in generated :
          /\ g[1] = assign_stack(candidate.state)
          /\ g[2] # candidate.state
          /\ g[3] < stack_at(g[1])[g[2]].logprob

\* C4: the hypotheses of stack si that are expanded are its min(beam size,
\* stack size) best ones, fixed before the stack's expansion starts: each
\* scores at least as high as every hypothesis of the stack left out, and a
\* hypothesis whose predecessor lies in stack si comes from one of them.
C4_Pruning ==
    pc \in {"expand", "insert"} =>
        LET H == Range(stack_at(si))
            n == IF opts_s < Cardinality(H) THEN opts_s ELSE Cardinality(H)
        IN  /\ Len(beam) = n
            /\ Len(beam) <= opts_s
            /\ Range(beam) \subseteq H
            /\ Cardinality(Range(beam)) = Len(beam)
            /\ \A h \in Range(beam) : \A g \in H \ Range(beam) : h.logprob >= g.logprob
            /\ \A h \in Stored :
                  (h.predecessor # None /\ h.predecessor[1] \in H)
                      => h.predecessor[1] \in Range(beam)

\* a stack of more hypotheses than the beam, one of those cut strictly
\* worse than one kept, with an expansion under way
C4_Witness ==
    /\ pc = "insert"
    /\ opts_s >= 1
    /\ Cardinality(DOMAIN stack_at(si)) > opts_s + 1
    /\ \E h \in Range(beam) : \E g \in Range(stack_at(si)) \ Range(beam) : h.logprob > g.logprob
    /\ si >= 1

\* a transition between states opens a gap only from no gap, and leaves none
\* after an open gap
one_gap(p, s) ==
    /\ s.gap # None => (p.gap = None /\ Len(s.gap) = 2)
    /\ p.gap # None => s.gap = None

\* C5: a state has at most one pending gap; a gap is opened only out of a
\* state without one, and every transition out of a state with an open gap
\* closes it.
C5_SingleGap ==
    /\ \A h \in Stored : h.predecessor # None => one_gap(h.predecessor[1].state, h.state)
    /\ pc = "insert" => \A m \in 1..Len(exts) : one_gap(beam[bi].state, exts[m][1])

\* a gap was opened, and the extensions at hand close one
C5_Witness ==
    /\ pc = "insert"
    /\ beam[bi].state.gap # None
    /\ Len(exts) >= 2
    /\ \E h \in Stored : h.predecessor # None /\ h.predecessor[1].state.gap # None

\* covered_upto from state p to its successor s
monotone(p, s) ==
    /\ s.i >= p.i
    /\ p.gap = None => s.i > p.i
    /\ p.gap # None => (s.i = p.i /\ s.gap = None)

\* C6: covered_upto never decreases from a hypothesis to its successor; it
\* grows on cases A and B and stays on case C, where the gap closes.
C6_CoverageMonotone ==
    /\ \A h \in Stored : h.predecessor # None => monotone(h.predecessor[1].state, h.state)
    /\ pc = "insert" => \A m \in 1..Len(exts) : monotone(beam[bi].state, exts[m][1])

\* extensions of a state without gap that stay gapless and that open one,
\* with a gap-filling hypothesis already stored
C6_Witness ==
    /\ pc = "insert"
    /\ beam[bi].state.gap = None
    /\ \E m \in 1..Len(exts) : exts[m][1].gap = None
    /\ \E m \in 1..Len(exts) : exts[m][1].gap # None /\ exts[m][1].i > beam[bi].state.i + 1
    /\ \E h \in Stored : h.predecessor # None /\ h.predecessor[1].state.gap # None
                            /\ h.state.i = h.predecessor[1].state.i

\* every token of the sentence has a table entry with a candidate
tokens_translatable == \A w \in Range(f) : <<w>> \in DOMAIN tm /\ Len(tm[<<w>>]) >= 1

finished == pc \in {"done", "error"}

\* C7: with every token translatable and a beam of at least one, the final
\* stack is not empty once all stacks have been processed.
C7_FinalStackNonEmpty ==
    (finished /\ opts_s >= 1 /\ tokens_translatable) => DOMAIN stack_at(L) # {}

\* a three-token sentence has been decoded with a beam of one that cut a
\* stack down to a state with an open gap short of the last token
C7_Witness ==
    /\ pc = "done"
    /\ opts_s = 1
    /\ L = 3
    /\ tokens_translatable
    /\ winner[1].predecessor[1].predecessor # None
    /\ winner[1].predecessor[1].predecessor[1].state.gap # None
    /\ winner[1].predecessor[1].predecessor[1].state.i < L
    /\ Cardinality(DOMAIN stack_at(assign_stack(winner[1].predecessor[1].predecessor[1].state))) >= 2

\* C8: an empty final stack ends the decoding in an error, and nothing is
\* printed for the sentence; what is printed comes from a non-empty final
\* stack.
C8_EmptyFinalStackFails ==
    /\ [](pc = "error" => (DOMAIN stack_at(L) = {} /\ output = None /\ winner = None))
    /\ [](output # None => (created /\ DOMAIN stack_at(L) # {}))
    /\ [][(pc = "loop" /\ si = L /\ DOMAIN stack_at(L) = {})
            => (pc' = "error" /\ output' = None)]_vars

\* a sentence of at least one token decoded with beam size 0 has failed
C8_Witness ==
    /\ pc = "error"
    /\ opts_s = 0
    /\ L >= 1
    /\ output = None

\* C9: the empty sentence is decoded without error: the winner is the root
\* hypothesis, of logprob 0, no hypothesis is generated and the translation
\* is empty.
C9_EmptySentence ==
    L = 0 =>
        /\ pc \in {"oov", "create", "loop", "done"}
        /\ pc # "done" => ENABLED Next
        /\ generated = {}
        /\ pc = "done" =>
              /\ output = <<<<>>>>
              /\ winner = <<root>>
              /\ winner[1].logprob = 0
              /\ winner[1].predecessor = None

\* the empty sentence has been decoded
C9_Witness ==
    /\ L = 0
    /\ pc = "done"
    /\ output = <<<<>>>>

\* the transitions cases A, B and C allow out of state s, each with its
\* incremental score
case_A(s, j) ==
    {<<state(j, None, r[1]), r[2]>> :
        r \in {add_log_probs(s.lm_state, ph, j = L) : ph \in Range(tm[Slice(f, s.i, j)])}}

case_B(s, j, k) ==
    {<<state(k, <<s.i, j>>, r[1]), r[2]>> :
        r \in {add_log_probs(s.lm_state, ph, FALSE) : ph \in Range(tm[Slice(f, j, k)])}}

case_C(s) ==
    {<<state(s.i, None, r[1]), r[2]>> :
        r \in {add_log_probs(s.lm_state, ph, s.i = L) :
                  ph \in Range(tm[Slice(f, s.gap[1], s.gap[2])])}}

transitions(s) ==
    IF s.gap # None THEN case_C(s)
    ELSE UNION {case_A(s, j)
                  \cup UNION {case_B(s, j, k) :
                                 k \in {y \in (j + 1)..L : Slice(f, j, y) \in DOMAIN tm}} :
                   j \in {x \in (s.i + 1)..L : Slice(f, s.i, x) \in DOMAIN tm}}

\* the total scores of the complete derivations that start in state s with
\* score acc
RECURSIVE derivation_totals(_, _)
derivation_totals(s, acc) ==
    IF s.i = L /\ s.gap = None THEN {acc}
    ELSE UNION {derivation_totals(e[1], acc + e[2]) : e \in transitions(s)}

\* no stack that was pruned held more hypotheses than the beam
nothing_pruned == \A n \in 0..(L - 1) : Cardinality(DOMAIN stack_at(n)) <= opts_s

\* C10: when pruning removes nothing, the winner's logprob is the greatest
\* total score of a complete derivation by cases A, B and C, and decoding
\* fails only if there is no such derivation.
C10_WinnerIsOptimal ==
    (finished /\ nothing_pruned) =>
        LET totals == derivation_totals(initial_state, 0)
        IN  IF totals = {} THEN pc = "error"
            ELSE pc = "done" /\ winner[1].logprob = MaxOf(totals)

\* a two-token sentence decoded without pruning whose winner is the joint
\* phrase, the other derivations scoring less
C10_Witness ==
    /\ pc = "done"
    /\ nothing_pruned
    /\ L = 2
    /\ opts_s >= 2
    /\ winner[1].predecessor[1] = root
    /\ Cardinality(derivation_totals(initial_state, 0)) >= 3


\* the language-model score of the word sequence ws read after context ctx,
\* the end-of-sequence score of the last context included
RECURSIVE lm_of_words(_, _)
lm_of_words(ctx, ws) ==
    IF ws = <<>> THEN lm_end(ctx)
    ELSE lm_score(ctx, Head(ws))[2] + lm_of_words(lm_score(ctx, Head(ws))[1], Tail(ws))

\* the phrases on the predecessor chain of h, root first
RECURSIVE chain_phrases(_)
chain_phrases(h) ==
    IF h.predecessor = None THEN <<>>
    ELSE Append(chain_phrases(h.predecessor[1]), h.phrase[1])

\* the sum of the translation-model logprobs of a list of phrases
RECURSIVE tm_sum(_)
tm_sum(phrases) == IF phrases = <<>> THEN 0 ELSE Head(phrases).logprob + tm_sum(Tail(phrases))

\* the words printed for the winner
output_words == Split(output[1])

\* the reported figures add up, TM is the sum over the chain, LM is the
\* score of the printed words
decomposes ==
    LET w == winner[1]
    IN  /\ report(w).Total = w.logprob
        /\ report(w).Total = report(w).TM + report(w).LM
        /\ report(w).TM = tm_sum(chain_phrases(w))
        /\ report(w).LM = lm_of_words(lm_begin, output_words)

\* C11 as stated: the winner's total is the sum of the phrase logprobs on
\* its chain plus the language-model score of the output words in output
\* order, end-of-sequence score included, whatever the sentence.
C11_ScoreDecomposition_AsStated == pc = "done" => decomposes

\* C11: for a sentence of at least one token the winner's total is the sum
\* of the phrase logprobs on its chain plus the language-model score of the
\* output words in output order, end-of-sequence score included; for the
\* empty sentence total, TM and LM are all 0 and no end-of-sequence score
\* is charged.
C11_ScoreDecomposition ==
    pc = "done" =>
        IF L >= 1 THEN decomposes
        ELSE report(winner[1]) = [LM |-> 0, TM |-> 0, Total |-> 0]

\* a winner of three phrases, one of them out of source order, with a TM
\* share and an LM share that are both non-zero
C11_Witness ==
    /\ pc = "done"
    /\ Len(chain_phrases(winner[1])) = 3
    /\ \E h \in {winner[1].predecessor[1], winner[1].predecessor[1].predecessor[1]} :
          h.state.gap # None
    /\ report(winner[1]).TM < 0
    /\ report(winner[1]).LM < 0


\* the translations line 121 can print once the loop over the stacks is over
printable == {extract_english(h) : h \in best_of(Range(stack_at(L)))}

\* the lists line 109 can hand to the expansion of stack si
expandable == prune(Range(stack_at(si)), opts_s)

\* C12: decoding a sentence with given phrase table, language model and
\* beam size has one possible outcome: the hypotheses expanded out of a
\* stack and the translation printed are determined by the stacks, also
\* when hypotheses tie at the pruning cut-off or in the final stack.
C12_Determinism ==
    /\ (pc = "loop" /\ si < L) =>
          \A b1, b2 \in expandable : Range(b1) = Range(b2)
    /\ (pc = "loop" /\ si = L) => Cardinality(printable) <= 1


\* the phrase table holds nothing but the entries the fallback made for the
\* tokens of f: one candidate each, the token itself
oov_only ==
    /\ pc # "oov"
    /\ DOMAIN tm = {<<w>> : w \in Range(f)}
    /\ \A w \in Range(f) : Len(tm[<<w>>]) = 1 /\ tm[<<w>>][1].english = <<w>>

\* how often x occurs in seq
occurrences(seq, x) == Cardinality({n \in 1..Len(seq) : seq[n] = x})

\* seq1 and seq2 hold the same elements, each as often
permutation(seq1, seq2) ==
    /\ Len(seq1) = Len(seq2)
    /\ \A x \in Range(seq1) \cup Range(seq2) : occurrences(seq1, x) = occurrences(seq2, x)

\* C13 as stated: with copy entries only, the output is the input tokens in
\* source order and the winner's TM share is 0, for every language model
\* and beam size >= 1.
C13_CopyInSourceOrder ==
    (finished /\ oov_only /\ opts_s >= 1) =>
        /\ pc = "done"
        /\ output_words = f
        /\ report(winner[1]).TM = 0

\* C13: with copy entries only, for every language model and beam size
\* >= 1 the decoding succeeds, the output is a permutation of the input
\* tokens, one word per token and each followed by a space, in source order
\* for a sentence of at most one token, and the winner's TM share is 0.
C13_CopyOfTokens ==
    (finished /\ oov_only /\ opts_s >= 1) =>
        /\ pc = "done"
        /\ permutation(output_words, f)
        /\ Len(output[1]) = 2 * L
        /\ \A n \in 1..L : output[1][2 * n] = " "
        /\ L <= 1 => output_words = f
        /\ report(winner[1]).TM = 0
        /\ Len(chain_phrases(winner[1])) = L

\* three tokens were copied, and printed out of source order
C13_Witness ==
    /\ pc = "done"
    /\ oov_only
    /\ opts_s >= 1
    /\ L = 3
    /\ output_words # f


\* the gap of state s, opened out of state p, as the claim bounds it
gap_bounded_by_origin(p, s) ==
    s.gap # None => (s.gap[1] < s.gap[2] /\ s.gap[2] <= p.i)

\* the gap of state s, opened out of state p, as case 2 records it
gap_after_origin(p, s) ==
    s.gap # None =>
        /\ p.gap = None
        /\ s.gap[1] = p.i
        /\ s.gap[1] < s.gap[2]
        /\ s.gap[2] < s.i
        /\ s.i <= L

\* C14 as stated: a gap [start, end) has start < end, and end is at most
\* covered_upto of the state the gap was opened from.
C14_GapBeforeOrigin ==
    /\ \A h \in Stored : h.predecessor # None => gap_bounded_by_origin(h.predecessor[1].state, h.state)
    /\ pc = "insert" => \A m \in 1..Len(exts) : gap_bounded_by_origin(beam[bi].state, exts[m][1])

\* C14: a gap [start, end) starts at covered_upto of the state it was
\* opened from, which has no gap, and start < end < covered_upto <= L in the
\* state that holds it.
C14_GapAfterOrigin ==
    /\ \A h \in Stored : h.predecessor # None => gap_after_origin(h.predecessor[1].state, h.state)
    /\ pc = "insert" => \A m \in 1..Len(exts) : gap_after_origin(beam[bi].state, exts[m][1])

\* a gap opened after the first token, and one of two tokens
C14_Witness ==
    /\ \E h \in Stored : h.state.gap # None /\ h.predecessor[1].state.i >= 1
    /\ \E h \in Stored : h.state.gap # None /\ h.state.gap[2] - h.state.gap[1] = 2


\* the single-token spans of the input
token_spans == {<<w>> : w \in Range(f)}

\* what the step from the loaded table tm to the table tm' decoded with does
fallback_step ==
    /\ DOMAIN tm' = DOMAIN tm \cup token_spans
    /\ \A sp \in token_spans \ DOMAIN tm : tm'[sp] = <<Phrase(<<sp[1]>>, 0)>>
    /\ \A sp \in DOMAIN tm : tm'[sp] = tm[sp]

\* C15: the preprocessing gives every token of the input that has no
\* single-token entry exactly one candidate, the token itself with logprob 0,
\* and leaves every loaded entry as it was; from then on every token of the
\* input has a single-token entry and the table no longer changes.
C15_OOVFallback ==
    /\ [][pc = "oov" => fallback_step]_vars
    /\ [](pc # "oov" => token_spans \subseteq DOMAIN tm)
    /\ [][pc # "oov" => tm' = tm]_vars

\* the fallback has run on a table that knew one token of the input and
\* not the other
C15_Witness ==
    /\ pc = "create"
    /\ Range(f) = {"x", "y"}
    /\ tm[<<"y">>] = <<Phrase(<<"A">>, 0)>>
    /\ tm[<<"x">>] = <<Phrase(<<"x">>, 0)>>
    /\ \E sp \in DOMAIN tm : Len(sp) = 2


\* the hypotheses on the predecessor chain of h, root first, h last
RECURSIVE chain(_)
chain(h) ==
    IF h.predecessor = None THEN <<h>>
    ELSE Append(chain(h.predecessor[1]), h)

\* the texts of a list of phrases, each followed by one space
spaced(phrases) == Flatten([n \in 1..Len(phrases) |-> phrases[n].english \o <<" ">>])

\* on the chain c, the phrase emitted by a skip is followed at once by the
\* phrase that fills the gap, whose source span lies before its own
skip_precedes_fill(c) ==
    \A n \in 2..Len(c) :
        c[n].state.gap # None =>
            /\ n < Len(c)
            /\ span_of(c[n + 1]) = c[n].state.gap
            /\ span_of(c[n + 1])[2] = span_of(c[n])[1]

\* C16: what is printed is the text of the phrases on the winner's chain,
\* root first, each followed by one space, so that the phrase of a skip
\* comes before the phrase that fills its gap; a one-token sentence whose
\* token has the single candidate B prints "B ".
C16_Translation ==
    pc = "done" =>
        /\ output[1] = spaced(chain_phrases(winner[1]))
        /\ skip_precedes_fill(chain(winner[1]))
        /\ (L = 1 /\ Len(tm[f]) = 1) => output[1] = tm[f][1].english \o <<" ">>
        /\ (f = <<"y">> /\ tm[f] = <<Phrase(<<"B">>, -1)>>) => output[1] = <<"B", " ">>

\* a winner whose chain skips a span and fills it, printing three words
\* that are not all the same, one phrase being of two words
C16_Witness ==
    /\ pc = "done"
    /\ \E n \in 2..Len(chain(winner[1])) : chain(winner[1])[n].state.gap # None
    /\ Len(output_words) >= 3
    /\ Cardinality(Range(output_words)) >= 2
    /\ Len(chain_phrases(winner[1])) < Len(output_words)


\* the extension about to be inserted goes to a later stack that exists
goes_forward == si < assign_stack(candidate.state) /\ assign_stack(candidate.state) <= L

\* a step leaves stack n as it is
untouched(n) == stacks'[n + 1] = stacks[n + 1]

\* C17: a hypothesis made by expanding stack si is inserted into a stack j
\* with si < j <= L and into no other; the stacks up to si, the one being
\* pruned and expanded included, are never modified again, so each stack
\* holds all it will ever hold when its pruning starts.
C17_StackOrder ==
    /\ [](pc = "insert" => \A m \in 1..Len(exts) :
              si < assign_stack(exts[m][1]) /\ assign_stack(exts[m][1]) <= L)
    /\ [][(pc = "insert" /\ ei' = ei + 1) =>
              /\ goes_forward
              /\ \A n \in 0..L : n # assign_stack(candidate.state) => untouched(n)]_vars
    /\ [][created => \A n \in 0..si : untouched(n)]_vars
    /\ [][created => (si' >= si /\ si' <= si + 1)]_vars

\* past the first stack, an extension that jumps over the next stack is
\* about to be inserted
C17_Witness ==
    /\ pc = "insert"
    /\ ei <= Len(exts)
    /\ si >= 1
    /\ assign_stack(candidate.state) >= si + 2
    /\ DOMAIN stack_at(si + 1) # {}


\* hypothesis p is what its stack holds for its state
is_stored(p) ==
    /\ assign_stack(p.state) \in 0..L
    /\ p.state \in DOMAIN stack_at(assign_stack(p.state))
    /\ stack_at(assign_stack(p.state))[p.state] = p

\* the predecessor chain of the hypothesis h of stack n starts at the root,
\* takes at most n steps and passes through a state, hence a hypothesis,
\* once; the predecessor of h is stored, in a stack before n
well_founded(h, n) ==
    LET c == chain(h)
    IN  /\ c[1] = root
        /\ Len(c) - 1 <= n
        /\ \A a, b \in 1..Len(c) : c[a].state = c[b].state => a = b
        /\ h.predecessor # None =>
              /\ is_stored(h.predecessor[1])
              /\ assign_stack(h.predecessor[1].state) < n

\* every entry is filed under its state in the stack of its state, and its
\* chain is well founded
entries_well_founded ==
    \A n \in DOMAIN stacks : \A s \in DOMAIN stacks[n] :
        /\ stacks[n][s].state = s
        /\ assign_stack(s) = n - 1
        /\ n - 1 <= L
        /\ well_founded(stacks[n][s], n - 1)

\* C18: at every point of a decoding, the predecessor of a stored
\* hypothesis is the hypothesis that the predecessor's stack, an earlier
\* one, holds for the predecessor's state (and so, being stored, is every
\* hypothesis further up the chain); the chain ends at the root after at
\* most L steps without repeats.
C18_PredecessorsStored == []entries_well_founded

\* a chain of three steps is stored while some state's entry has replaced
\* a worse hypothesis generated for it
C18_Witness ==
    /\ \E h \in Stored : Len(chain(h)) = 4
    /\ \E g \in generated : g[3] < stack_at(g[1])[g[2]].logprob


\* the source span state s has left open
gap_span(s) == Slice(f, s.gap[1], s.gap[2])

\* the table has an entry for the gap of s, and s has one extension per
\* candidate of that entry, each closing the gap
fillable(s) ==
    s.gap # None =>
        /\ gap_span(s) \in DOMAIN tm
        /\ LET es == extend_state(s, f)
           IN  /\ Len(es) = Len(tm[gap_span(s)])
               /\ Len(tm[gap_span(s)]) >= 1 => Len(es) >= 1
               /\ \A m \in 1..Len(es) : es[m][1].gap = None /\ es[m][3] = tm[gap_span(s)][m]

\* every state with a gap that is stored or has just been yielded is
\* fillable, and the extensions at hand of a state with a gap are one per
\* candidate
gaps_fillable ==
    /\ \A h \in Stored : fillable(h.state)
    /\ pc = "insert" =>
          /\ \A m \in 1..Len(exts) : fillable(exts[m][1])
          /\ beam[bi].state.gap # None => Len(exts) = Len(tm[gap_span(beam[bi].state)])

\* C19: a span is skipped only if the table has an entry for it: at every
\* point of a decoding the gap of every state yielded or stored has a table
\* entry, so the lookup of case 3 finds its key, and a state with a gap has
\* as many extensions as that entry has candidates, at least one if it has
\* a candidate.
C19_GapHasEntry == []gaps_fillable

\* the two candidates of a two-token span fill a gap, in a sentence that
\* also has a span without table entry
C19_Witness ==
    /\ pc = "insert"
    /\ beam[bi].state.gap # None
    /\ beam[bi].state.gap[2] - beam[bi].state.gap[1] = 2
    /\ Len(exts) = 2
    /\ \E a \in 0..(L - 1) : \E b \in (a + 1)..L : Slice(f, a, b) \notin DOMAIN tm


\* state s covers the whole sentence
complete(s) == s.i = L /\ s.gap = None

\* the score of the words ws read after context ctx, end of sentence left out
RECURSIVE words_score(_, _)
words_score(ctx, ws) ==
    IF ws = <<>> THEN 0
    ELSE lm_score(ctx, Head(ws))[2] + words_score(lm_score(ctx, Head(ws))[1], Tail(ws))

\* what the transition from state p to state s by phrase ph, scored incr,
\* was charged beyond the phrase's own logprob and the score of its words
eos_charge(p, s, ph, incr) == incr - ph.logprob - words_score(p.lm_state, Split(ph.english))

\* the transition was charged the end-of-sequence score of the context it
\* ends in if s is complete, and nothing otherwise
eos_iff_complete(p, s, ph, incr) ==
    /\ eos_charge(p, s, ph, incr) = (IF complete(s) THEN lm_end(s.lm_state) ELSE 0)
    /\ s.gap # None => eos_charge(p, s, ph, incr) = 0

\* the steps of the chain c are charged the end-of-sequence score once, on
\* the last of them
eos_on_last_step(c) ==
    /\ Len(c) >= 2
    /\ \A m \in 2..Len(c) :
          /\ complete(c[m].state) <=> m = Len(c)
          /\ eos_iff_complete(c[m - 1].state, c[m].state, c[m].phrase[1],
                              c[m].logprob - c[m - 1].logprob)

\* C20: a transition is charged the end-of-sequence score exactly if the
\* state it produces has covered_upto = L and no gap, so never when it
\* opens a gap; on the chain of a hypothesis of the final stack of a
\* non-empty sentence the last transition, and only it, is charged.
C20_EndOfSequence ==
    /\ pc = "insert" =>
          \A m \in 1..Len(exts) :
              eos_iff_complete(beam[bi].state, exts[m][1], exts[m][3], exts[m][2])
    /\ (created /\ L >= 1) => \A h \in Range(stack_at(L)) : eos_on_last_step(chain(h))

\* the final stack holds a hypothesis whose last step filled a gap and was
\* charged a non-zero end-of-sequence score, while a state with a gap that
\* had reached the last token was charged none
C20_Witness ==
    /\ created
    /\ L = 3
    /\ \E h \in Range(stack_at(L)) :
          /\ h.predecessor[1].state.gap # None
          /\ Len(chain(h)) = 4
          /\ lm_end(h.state.lm_state) < 0
          /\ lm_end(h.predecessor[1].state.lm_state) < 0

=============================================================================
